---------------------------- MODULE Spec2Model ----------------------------
(***************************************************************************)
(* CodeXR demo (src/app.py): a Streamlit page whose submit handler calls   *)
(* get_simulated_ai_response on the text of the input field, validates the *)
(* returned dict against the pydantic model CodeXRResponse and renders it. *)
(*                                                                         *)
(* Python values are modelled as tagged records, so that the schema        *)
(* validation can inspect the type of a value:                             *)
(*   Str(s)   a str literal of the source, held as a TLA+ string           *)
(*   Text(q)  a str built from user input, held as a sequence of           *)
(*            one-character strings (so that lower() and "in" are computed)*)
(*   None, List(xs), Dict(f)                                               *)
(* Icons in the UI labels are left out of the label strings, and the two   *)
(* backquotes in a best practice of scenario 3 are written as apostrophes. *)
(***************************************************************************)
EXTENDS Integers, Sequences, FiniteSets

VARIABLES
  query,               \* value of st.text_input, a sequence of characters
  nwords,              \* number of edits made to the input field (bounded)
  pc,                  \* position of the script run: idle/resolved/validated/done
  calls,               \* calls of get_simulated_ai_response in this script run
  response_data,       \* the dict returned by get_simulated_ai_response, or None
  validated_response,  \* the CodeXRResponse built from response_data, or None
  screen               \* elements rendered below the button in this script run

vars == <<query, nwords, pc, calls, response_data, validated_response, screen>>

\* Number of pieces of text the user may append to the input field.
MaxWords == 4

---------------------------------------------------------------------------
\* Python values

Str(s) == [t |-> "str", s |-> s]
Text(q) == [t |-> "str", chars |-> q]
None == [t |-> "none"]
List(xs) == [t |-> "list", xs |-> xs]
Dict(f) == [t |-> "dict", f |-> f]

\* bool(v) of a str: non-empty.
Truthy(v) ==
  IF v.t = "none" THEN FALSE
  ELSE IF v.t = "str"
       THEN IF "chars" \in DOMAIN v THEN v.chars # <<>> ELSE v.s # ""
  ELSE IF v.t = "list" THEN v.xs # <<>>
  ELSE TRUE

---------------------------------------------------------------------------
\* str.lower() and the substring test "a in b"

UpperCase ==
  <<"A", "B", "C", "D", "E", "F", "G", "H", "I", "J", "K", "L", "M",
    "N", "O", "P", "Q", "R", "S", "T", "U", "V", "W", "X", "Y", "Z">>

LowerCase ==
  <<"a", "b", "c", "d", "e", "f", "g", "h", "i", "j", "k", "l", "m",
    "n", "o", "p", "q", "r", "s", "t", "u", "v", "w", "x", "y", "z">>

\* The lower-case letter of each upper-case letter.
ToLower ==
  [c \in {UpperCase[i] : i \in DOMAIN UpperCase} |->
     LowerCase[CHOOSE i \in DOMAIN UpperCase : UpperCase[i] = c]]

lower_char(c) == IF c \in DOMAIN ToLower THEN ToLower[c] ELSE c

lower(s) == [i \in 1..Len(s) |-> lower_char(s[i])]

\* sub in s: sub occurs in s as a contiguous run of characters.
Contains(sub, s) ==
  \E i \in 1..(Len(s) - Len(sub) + 1) :
    \A j \in 1..Len(sub) : s[i + j - 1] = sub[j]

kw_teleport == <<"t", "e", "l", "e", "p", "o", "r", "t">>
kw_unity == <<"u", "n", "i", "t", "y">>
kw_multiplayer == <<"m", "u", "l", "t", "i", "p", "l", "a", "y", "e", "r">>
kw_unreal == <<"u", "n", "r", "e", "a", "l">>
kw_shader == <<"s", "h", "a", "d", "e", "r">>
kw_occlusion == <<"o", "c", "c", "l", "u", "s", "i", "o", "n">>

---------------------------------------------------------------------------
\* get_simulated_ai_response: the three scenario conditions

Scenario1MatchesAny(query_lower) ==
  Contains(kw_teleport, query_lower) \/ Contains(kw_unity, query_lower)

Scenario1Matches(query_lower) ==
  Contains(kw_teleport, query_lower) /\ Contains(kw_unity, query_lower)

Scenario2MatchesUnity(query_lower) ==
  Contains(kw_multiplayer, query_lower) /\ Contains(kw_unity, query_lower)

Scenario2Matches(query_lower) ==
  Contains(kw_multiplayer, query_lower) /\ Contains(kw_unreal, query_lower)

Scenario3Matches(query_lower) ==
  Contains(kw_shader, query_lower) /\ Contains(kw_occlusion, query_lower)

---------------------------------------------------------------------------
\* get_simulated_ai_response: the returned dicts

Scenario1Response(q) ==
  Dict([
    query |-> Text(q),
    category |-> Str("Unity"),
    difficulty |-> Str("Intermediate"),
    subtasks |-> List(<<
      Dict([task_name |-> Str("Install the Unity XR Interaction Toolkit"),
            details |-> Str("Use the Package Manager to add the XR Interaction Toolkit.")]),
      Dict([task_name |-> Str("Create a Teleportation Area"),
            details |-> Str("Add a 'Teleportation Area' component to the floor/ground plane.")]),
      Dict([task_name |-> Str("Set up the XR Rig"),
            details |-> Str("Ensure your XR Rig has a 'Teleportation Provider' component.")]),
      Dict([task_name |-> Str("Configure Controller Actions"),
            details |-> Str("Map a controller button to the 'Teleport' action in the Input Action Asset.")])
    >>),
    code_snippet |-> Dict([language |-> Str("csharp"),
                           code |-> Str("// Attach this script to your XR Rig to enable teleportation requests.\nusing UnityEngine;\nusing UnityEngine.InputSystem;\nusing UnityEngine.XR.Interaction.Toolkit;\n\npublic class TeleportController : MonoBehaviour\n{\n    public InputActionAsset actionAsset;\n    public TeleportationProvider provider;\n\n    private InputAction _thumbstick;\n    private TeleportRequest _request = new TeleportRequest();\n\n    void Start()\n    {\n        // Ensure the provider is assigned in the Inspector\n        if (provider == null) provider = GetComponent<TeleportationProvider>();\n\n        var activate = actionAsset.FindActionMap(\"XRI RightHand Locomotion\").FindAction(\"Teleport Mode Activate\");\n        activate.Enable();\n        activate.performed += OnTeleportActivate;\n\n        var cancel = actionAsset.FindActionMap(\"XRI RightHand Locomotion\").FindAction(\"Teleport Mode Cancel\");\n        cancel.Enable();\n        cancel.performed += OnTeleportCancel;\n    }\n\n    private void OnTeleportActivate(InputAction.CallbackContext context) { /* Logic to show ray */ }\n    private void OnTeleportCancel(InputAction.CallbackContext context) { /* Logic to hide ray and teleport */ }\n}")]),
    best_practices |-> List(<<
      Str("Use Teleportation Anchors for specific teleport points, not just large areas."),
      Str("Ensure your floor/ground objects are on a layer that the XR Ray Interactor can hit."),
      Str("A 'NullReferenceException' often means the TeleportationProvider is not assigned in the Inspector.")
    >>),
    documentation_link |-> Str("https://docs.unity3d.com/Packages/com.unity.xr.interaction.toolkit@2.5/manual/locomotion.html")
  ])

Scenario2ResponseCSharp(q) ==
  Dict([
    query |-> Text(q),
    category |-> Str("Unreal"),
    difficulty |-> Str("Advanced"),
    subtasks |-> List(<<
      Dict([task_name |-> Str("Enable a Networking Plugin"),
            details |-> Str("Activate 'Online Subsystem' and a specific platform plugin (e.g., 'OnlineSubsystemSteam').")]),
      Dict([task_name |-> Str("Replicate VR Pawn and Actors"),
            details |-> Str("Set the 'Replicates' flag to true on your VRPawn and any networked objects.")]),
      Dict([task_name |-> Str("Replicate Movement"),
            details |-> Str("Use RPCs (Remote Procedure Calls) like 'Server_Move' and 'Multicast_Move' to sync player position.")]),
      Dict([task_name |-> Str("Set up a Game Session"),
            details |-> Str("Use the Online Session Interface to create, find, and join multiplayer sessions.")])
    >>),
    code_snippet |-> Dict([language |-> Str("csharp"),
                           code |-> Str("// Example of a replicated function in your character's header file\nUCLASS()\nclass YOURGAME_API AVRCharacter : public ACharacter\n{\n    GENERATED_BODY()\n\npublic:\n    // This function is called on the server\n    UFUNCTION(Server, Reliable, WithValidation)\n    void Server_SomeAction();\n\n    // This function is called on all clients\n    UFUNCTION(NetMulticast, Reliable)\n    void Multicast_SomeEffect();\n\n    // Must override this for replicated properties\n    virtual void GetLifetimeReplicatedProps(TArray<FLifetimeProperty>& OutLifetimeProps) const override;\n\nprotected:\n    // Replicated property\n    UPROPERTY(Replicated)\n    float Health;\n};")]),
    best_practices |-> List(<<
      Str("Only replicate what's necessary to save bandwidth."),
      Str("Avoid running complex logic in 'tick' functions for networked actors."),
      Str("Use 'Replication Conditions' (e.g., COND_OwnerOnly) to control when and to whom properties are sent.")
    >>),
    documentation_link |-> Str("https://docs.unrealengine.com/5.3/en-US/multiplayer-and-networking-in-unreal-engine/")
  ])

Scenario2Response(q) ==
  Dict([
    query |-> Text(q),
    category |-> Str("Unreal"),
    difficulty |-> Str("Advanced"),
    subtasks |-> List(<<
      Dict([task_name |-> Str("Enable a Networking Plugin"),
            details |-> Str("Activate 'Online Subsystem' and a specific platform plugin (e.g., 'OnlineSubsystemSteam').")]),
      Dict([task_name |-> Str("Replicate VR Pawn and Actors"),
            details |-> Str("Set the 'Replicates' flag to true on your VRPawn and any networked objects.")]),
      Dict([task_name |-> Str("Replicate Movement"),
            details |-> Str("Use RPCs (Remote Procedure Calls) like 'Server_Move' and 'Multicast_Move' to sync player position.")]),
      Dict([task_name |-> Str("Set up a Game Session"),
            details |-> Str("Use the Online Session Interface to create, find, and join multiplayer sessions.")])
    >>),
    code_snippet |-> Dict([language |-> Str("cpp"),
                           code |-> Str("// Example of a replicated function in your character's header file\nUCLASS()\nclass YOURGAME_API AVRCharacter : public ACharacter\n{\n    GENERATED_BODY()\n\npublic:\n    // This function is called on the server\n    UFUNCTION(Server, Reliable, WithValidation)\n    void Server_SomeAction();\n\n    // This function is called on all clients\n    UFUNCTION(NetMulticast, Reliable)\n    void Multicast_SomeEffect();\n\n    // Must override this for replicated properties\n    virtual void GetLifetimeReplicatedProps(TArray<FLifetimeProperty>& OutLifetimeProps) const override;\n\nprotected:\n    // Replicated property\n    UPROPERTY(Replicated)\n    float Health;\n};")]),
    best_practices |-> List(<<
      Str("Only replicate what's necessary to save bandwidth."),
      Str("Avoid running complex logic in 'tick' functions for networked actors."),
      Str("Use 'Replication Conditions' (e.g., COND_OwnerOnly) to control when and to whom properties are sent.")
    >>),
    documentation_link |-> Str("https://docs.unrealengine.com/5.3/en-US/multiplayer-and-networking-in-unreal-engine/")
  ])

Scenario3Response(q) ==
  Dict([
    query |-> Text(q),
    category |-> Str("Shader"),
    difficulty |-> Str("Intermediate"),
    subtasks |-> List(<<
      Dict([task_name |-> Str("Understand Occlusion Shaders"),
            details |-> Str("An occlusion shader makes objects invisible but still hides objects behind them. It doesn't write color, only depth.")]),
      Dict([task_name |-> Str("Create a New Shader Graph or File"),
            details |-> Str("In Unity or Unreal, create a new shader asset.")]),
      Dict([task_name |-> Str("Configure the Shader Properties"),
            details |-> Str("Set the 'Render Queue' to be earlier than your normal geometry and disable color/alpha writes.")]),
      Dict([task_name |-> Str("Apply the Material"),
            details |-> Str("Create a material from the shader and apply it to the geometry that should occlude (e.g., a model of a table).")])
    >>),
    code_snippet |-> Dict([language |-> Str("hlsl"),
                           code |-> Str("// A minimal Unity URP shader for occlusion.\nShader \"Unlit/OcclusionShader\"\n{\n    Properties\n    {\n    }\n    SubShader\n    {\n        Tags { \"RenderType\"=\"Opaque\" \"Queue\"=\"Geometry-10\" }\n        LOD 100\n        Pass\n        {\n            ColorMask 0 // Don't write to any color channels\n            ZWrite On   // Write to the depth buffer\n        }\n    }\n}")]),
    best_practices |-> List(<<
      Str("The key to occlusion is 'ColorMask 0'. This prevents the occluder from being visible."),
      Str("Make sure the occluder geometry matches the real-world object as closely as possible for convincing AR."),
      Str("This technique works best when the AR platform provides a mesh of the real-world environment.")
    >>),
    documentation_link |-> Str("https://docs.unity3d.com/Manual/SL-SubShaderTags.html")
  ])

DefaultResponseNoSnippet(q) ==
  Dict([
    query |-> Text(q),
    category |-> Str("General"),
    difficulty |-> Str("N/A"),
    subtasks |-> List(<<
      Dict([task_name |-> Str("Query not recognized"),
            details |-> Str("This demo only supports the three specific scenarios from the project document. Please try one of them.")])
    >>),
    best_practices |-> List(<<
      Str("Try asking: 'How do I add teleport locomotion in Unity VR?'")
    >>),
    documentation_link |-> Str("")
  ])

DefaultResponse(q) ==
  Dict([
    query |-> Text(q),
    category |-> Str("General"),
    difficulty |-> Str("N/A"),
    subtasks |-> List(<<
      Dict([task_name |-> Str("Query not recognized"),
            details |-> Str("This demo only supports the three specific scenarios from the project document. Please try one of them.")])
    >>),
    code_snippet |-> Dict([language |-> Str("text"),
                           code |-> Str("No code to display.")]),
    best_practices |-> List(<<
      Str("Try asking: 'How do I add teleport locomotion in Unity VR?'")
    >>),
    documentation_link |-> Str("")
  ])

---------------------------------------------------------------------------
\* get_simulated_ai_response

\* Variant: the scenario 2 test placed before the scenario 1 test.
get_simulated_ai_response_reordered(q) ==
  LET query_lower == lower(q)
  IN  IF Scenario2Matches(query_lower) THEN Scenario2Response(q)
      ELSE IF Scenario1Matches(query_lower) THEN Scenario1Response(q)
      ELSE IF Scenario3Matches(query_lower) THEN Scenario3Response(q)
      ELSE DefaultResponse(q)

\* Variant: the lower-cased copy is put in the returned dict.
get_simulated_ai_response_echo_lower(q) ==
  LET query_lower == lower(q)
  IN  IF Scenario1Matches(query_lower) THEN Scenario1Response(query_lower)
      ELSE IF Scenario2Matches(query_lower) THEN Scenario2Response(query_lower)
      ELSE IF Scenario3Matches(query_lower) THEN Scenario3Response(query_lower)
      ELSE DefaultResponse(query_lower)

\* Variant: the keywords are searched in the query as typed.
get_simulated_ai_response_case_sensitive(q) ==
  IF Scenario1Matches(q) THEN Scenario1Response(q)
  ELSE IF Scenario2Matches(q) THEN Scenario2Response(q)
  ELSE IF Scenario3Matches(q) THEN Scenario3Response(q)
  ELSE DefaultResponse(q)

get_simulated_ai_response(q) ==
  LET query_lower == lower(q)
  IN  IF Scenario1Matches(query_lower) THEN Scenario1Response(q)
      ELSE IF Scenario2Matches(query_lower) THEN Scenario2Response(q)
      ELSE IF Scenario3Matches(query_lower) THEN Scenario3Response(q)
      ELSE DefaultResponse(q)

---------------------------------------------------------------------------
\* The pydantic models Task, CodeSnippet and CodeXRResponse.  Validation
\* yields the set of field-level errors; it is empty when the model object
\* is built.  A field declared with Field(...) is required and must not be
\* None; str fields need a str (of any length), List fields a list (of any
\* length), nested models a dict.  Keys the model does not declare are ignored.

Err(field, index, sub, msg) ==
  [field |-> field, index |-> index, sub |-> sub, msg |-> msg]

TypeErr(v, expected) ==
  IF v.t = "none" THEN "none is not an allowed value" ELSE expected

\* A required str field key of the dict contents f.
StrFieldErrors(f, key, field, index, sub) ==
  IF key \notin DOMAIN f THEN {Err(field, index, sub, "field required")}
  ELSE IF f[key].t # "str"
       THEN {Err(field, index, sub, TypeErr(f[key], "str type expected"))}
  ELSE {}

\* An Optional[str] field with default None.
OptionalStrFieldErrors(f, key, field, index, sub) ==
  IF key \notin DOMAIN f THEN {}
  ELSE IF f[key].t \notin {"str", "none"}
       THEN {Err(field, index, sub, "str type expected")}
  ELSE {}

\* Variant: task_name declared Optional.
TaskErrorsNameOptional(v, i) ==
  IF v.t # "dict"
  THEN {Err("subtasks", i, "", TypeErr(v, "value is not a valid dict"))}
  ELSE OptionalStrFieldErrors(v.f, "task_name", "subtasks", i, "task_name")
       \cup OptionalStrFieldErrors(v.f, "details", "subtasks", i, "details")

\* class Task
TaskErrors(v, i) ==
  IF v.t # "dict"
  THEN {Err("subtasks", i, "", TypeErr(v, "value is not a valid dict"))}
  ELSE StrFieldErrors(v.f, "task_name", "subtasks", i, "task_name")
       \cup OptionalStrFieldErrors(v.f, "details", "subtasks", i, "details")

\* class CodeSnippet
CodeSnippetErrors(f) ==
  IF "code_snippet" \notin DOMAIN f
  THEN {Err("code_snippet", 0, "", "field required")}
  ELSE LET v == f["code_snippet"]
       IN  IF v.t # "dict"
           THEN {Err("code_snippet", 0, "", TypeErr(v, "value is not a valid dict"))}
           ELSE StrFieldErrors(v.f, "language", "code_snippet", 0, "language")
                \cup StrFieldErrors(v.f, "code", "code_snippet", 0, "code")

\* subtasks: List[Task]
SubtasksErrors(f) ==
  IF "subtasks" \notin DOMAIN f
  THEN {Err("subtasks", 0, "", "field required")}
  ELSE LET v == f["subtasks"]
       IN  IF v.t # "list"
           THEN {Err("subtasks", 0, "", TypeErr(v, "value is not a valid list"))}
           ELSE UNION {TaskErrors(v.xs[i], i) : i \in DOMAIN v.xs}

\* best_practices: List[str]
BestPracticesErrors(f) ==
  IF "best_practices" \notin DOMAIN f
  THEN {Err("best_practices", 0, "", "field required")}
  ELSE LET v == f["best_practices"]
       IN  IF v.t # "list"
           THEN {Err("best_practices", 0, "", TypeErr(v, "value is not a valid list"))}
           ELSE {Err("best_practices", i, "", TypeErr(v.xs[i], "str type expected")) :
                   i \in {j \in DOMAIN v.xs : v.xs[j].t # "str"}}

\* class CodeXRResponse, applied to the keyword arguments **data
CodeXRResponseErrors(data) ==
  StrFieldErrors(data.f, "query", "query", 0, "")
  \cup StrFieldErrors(data.f, "category", "category", 0, "")
  \cup StrFieldErrors(data.f, "difficulty", "difficulty", 0, "")
  \cup SubtasksErrors(data.f)
  \cup CodeSnippetErrors(data.f)
  \cup BestPracticesErrors(data.f)
  \cup StrFieldErrors(data.f, "documentation_link", "documentation_link", 0, "")

\* The Task object built from a valid dict: a field that is not given takes
\* its default, None.
TaskModel(v) ==
  [task_name |-> IF "task_name" \in DOMAIN v.f THEN v.f.task_name ELSE None,
   details |-> IF "details" \in DOMAIN v.f THEN v.f.details ELSE None]

\* The CodeXRResponse object built from a valid dict.
CodeXRResponse(data) ==
  [t |-> "CodeXRResponse",
   query |-> data.f.query,
   category |-> data.f.category,
   difficulty |-> data.f.difficulty,
   subtasks |-> [i \in DOMAIN data.f.subtasks.xs |-> TaskModel(data.f.subtasks.xs[i])],
   code_snippet |-> [language |-> data.f.code_snippet.f.language,
                     code |-> data.f.code_snippet.f.code],
   best_practices |-> data.f.best_practices.xs,
   documentation_link |-> data.f.documentation_link]

\* The ValidationError raised when the set of errors is not empty.
ValidationError(errors) == [t |-> "ValidationError", errors |-> errors]

---------------------------------------------------------------------------
\* Streamlit elements.  An f-string is the tuple of its pieces.

st_subheader(label) == [w |-> "subheader", args |-> <<Str(label)>>]
st_markdown(parts) == [w |-> "markdown", args |-> parts]
st_code(body, language) == [w |-> "code", args |-> <<body, language>>]
st_warning(body) == [w |-> "warning", args |-> <<body>>]
st_info(parts) == [w |-> "info", args |-> parts]
st_json(data) == [w |-> "json", args |-> <<data>>]
st_error(body) == [w |-> "error", args |-> <<Str(body)>>]

\* for task in validated_response.subtasks: st.markdown(...)
SubtaskLine(task) ==
  IF Truthy(task.details)
  THEN st_markdown(<<Str("- **"), task.task_name, Str("**: "), task.details>>)
  ELSE st_markdown(<<Str("- **"), task.task_name, Str("**")>>)

\* The body of the try block after the model object is built.
RenderOutput(v, data) ==
  <<st_subheader("Subtasks")>>
  \o [i \in DOMAIN v.subtasks |-> SubtaskLine(v.subtasks[i])]
  \o <<st_subheader("Code Snippet"),
       st_code(v.code_snippet.code, v.code_snippet.language),
       st_subheader("Gotchas & Best Practices")>>
  \o [i \in DOMAIN v.best_practices |-> st_warning(v.best_practices[i])]
  \o <<st_subheader("Metadata"),
       st_info(<<Str("**Difficulty:** "), v.difficulty>>),
       st_info(<<Str("**Category:** "), v.category>>)>>
  \o (IF Truthy(v.documentation_link)
      THEN <<st_markdown(<<Str("**[Official Documentation]("),
                           v.documentation_link, Str(")**")>>)>>
      ELSE <<>>)
  \o <<st_json(data)>>

\* Variant: the subtasks of the raw dict are listed in the error panel.
ErrorPanelPartial(errors, data) ==
  <<st_error("There was an error processing the AI's response. The JSON output did not match the required schema."),
    st_subheader("Subtasks"),
    st_code(ValidationError(errors), None),
    st_json(data)>>

\* The except ValidationError block.
ErrorPanel(errors, data) ==
  <<st_error("There was an error processing the AI's response. The JSON output did not match the required schema."),
    st_code(ValidationError(errors), None),
    st_json(data)>>

EmptyWarning == <<st_warning(Str("Please enter a query."))>>

---------------------------------------------------------------------------
\* Text the user can put in the input field

Words ==
  { kw_teleport,
    <<"U", "n", "i", "t", "y">>,
    <<"M", "U", "L", "T", "I", "P", "L", "A", "Y", "E", "R">>,
    kw_unreal,
    kw_shader,
    kw_occlusion,
    <<" ">>,
    <<"t", "e", "l", "e">>,
    <<"p", "o", "r", "t">> }

Example1 == <<"H", "o", "w", " ", "d", "o", " ", "I", " ", "a", "d", "d", " ", "t", "e", "l", "e", "p", "o", "r", "t", " ", "l", "o", "c", "o", "m", "o", "t", "i", "o", "n", " ", "i", "n", " ", "U", "n", "i", "t", "y", " ", "V", "R", "?">>
Example2 == <<"S", "h", "o", "w", " ", "m", "e", " ", "m", "u", "l", "t", "i", "p", "l", "a", "y", "e", "r", " ", "n", "e", "t", "w", "o", "r", "k", "i", "n", "g", " ", "i", "n", " ", "U", "n", "r", "e", "a", "l">>
Example3 == <<"s", "h", "a", "d", "e", "r", " ", "f", "o", "r", " ", "A", "R", " ", "o", "c", "c", "l", "u", "s", "i", "o", "n">>
Example4 == <<"h", "o", "w", " ", "d", "o", " ", "I", " ", "b", "a", "k", "e", " ", "l", "i", "g", "h", "t", "i", "n", "g">>

Examples == {Example1, Example2, Example3, Example4}

---------------------------------------------------------------------------
\* The page

\* A script run in which the button is not pressed shows the input only.
Rerun(q, n) ==
  /\ query' = q
  /\ nwords' = n
  /\ pc' = "idle"
  /\ calls' = 0
  /\ response_data' = None
  /\ validated_response' = None
  /\ screen' = <<>>

Init ==
  /\ query = <<>>
  /\ nwords = 0
  /\ pc = "idle"
  /\ calls = 0
  /\ response_data = None
  /\ validated_response = None
  /\ screen = <<>>

\* The user appends a piece of text to the input field.
EnterText(w) ==
  /\ pc \in {"idle", "done"}
  /\ nwords < MaxWords
  /\ Rerun(query \o w, nwords + 1)

\* The user puts one of the documented example queries in the empty field.
EnterExample(e) ==
  /\ pc \in {"idle", "done"}
  /\ query = <<>>
  /\ nwords = 0
  /\ Rerun(e, MaxWords)

\* The user empties the input field.
ClearText ==
  /\ pc \in {"idle", "done"}
  /\ query # <<>>
  /\ Rerun(<<>>, 0)

\* st.button pressed: the test of query and the call of get_simulated_ai_response.
Submit ==
  /\ pc \in {"idle", "done"}
  /\ IF Truthy(Text(query))
     THEN /\ response_data' = get_simulated_ai_response(query)
          /\ calls' = 1
          /\ pc' = "resolved"
          /\ screen' = <<>>
     ELSE /\ response_data' = None
          /\ calls' = 0
          /\ pc' = "done"
          /\ screen' = EmptyWarning
  /\ validated_response' = None
  /\ UNCHANGED <<query, nwords>>

\* validated_response = CodeXRResponse(**response_data), or the except block.
Validate ==
  /\ pc = "resolved"
  /\ LET errors == CodeXRResponseErrors(response_data)
     IN  IF errors = {}
         THEN /\ validated_response' = CodeXRResponse(response_data)
              /\ pc' = "validated"
              /\ screen' = screen
         ELSE /\ validated_response' = validated_response
              /\ pc' = "done"
              /\ screen' = ErrorPanel(errors, response_data)
  /\ UNCHANGED <<query, nwords, calls, response_data>>

\* The rest of the try block.
Render ==
  /\ pc = "validated"
  /\ screen' = RenderOutput(validated_response, response_data)
  /\ pc' = "done"
  /\ UNCHANGED <<query, nwords, calls, response_data, validated_response>>

Next ==
  \/ \E w \in Words : EnterText(w)
  \/ \E e \in Examples : EnterExample(e)
  \/ ClearText
  \/ Submit
  \/ Validate
  \/ Render

Spec == Init /\ [][Next]_vars

---------------------------------------------------------------------------
\* The try/except block applied to an arbitrary dict: what the handler does
\* with a record that a template other than the four above would produce.

SubtasksVariants ==
  << List(<<Dict([task_name |-> Str("Query not recognized"),
                  details |-> Str("Please try one of them.")])>>),
     List(<<>>),
     List(<<Dict([task_name |-> Str(""), details |-> Str("Please try one of them.")])>>),
     List(<<Dict([details |-> Str("Please try one of them.")])>>),
     List(<<Dict([task_name |-> Str("Query not recognized")])>>),
     List(<<Dict([task_name |-> Str("Query not recognized"), details |-> None])>>),
     List(<<Dict([task_name |-> Str("Query not recognized")]), Str("Apply the Material")>>),
     None >>

CodeSnippetVariants ==
  << Dict([language |-> Str("text"), code |-> Str("No code to display.")]),
     Dict([code |-> Str("No code to display.")]),
     None >>

DocumentationLinkVariants ==
  << Str(""), Str("https://docs.unity3d.com/Manual/SL-SubShaderTags.html") >>

FieldNames ==
  {"query", "category", "difficulty", "subtasks", "code_snippet",
   "best_practices", "documentation_link"}

\* The dict contents f without the key k.
Without(f, k) == [x \in DOMAIN f \ {k} |-> f[x]]

CandidateRecords ==
  { Dict(Without([DefaultResponse(Example4).f EXCEPT
                    !.subtasks = SubtasksVariants[s],
                    !.code_snippet = CodeSnippetVariants[c],
                    !.documentation_link = DocumentationLinkVariants[d]], k)) :
      s \in DOMAIN SubtasksVariants, c \in DOMAIN CodeSnippetVariants,
      d \in DOMAIN DocumentationLinkVariants, k \in FieldNames \cup {"(none)"} }

InitRecord ==
  /\ query = Example4
  /\ nwords = MaxWords
  /\ pc = "resolved"
  /\ calls = 1
  /\ response_data \in CandidateRecords
  /\ validated_response = None
  /\ screen = <<>>

NextRecord ==
  \/ Validate
  \/ Render

SpecRecord == InitRecord /\ [][NextRecord]_vars

---------------------------------------------------------------------------
\* Properties

\* The rule table as the specification states it: keyword set, then the
\* category, difficulty and snippet language of the template.
RuleTable ==
  << [keywords |-> {kw_teleport, kw_unity}, category |-> "Unity",
      difficulty |-> "Intermediate", language |-> "csharp"],
     [keywords |-> {kw_multiplayer, kw_unreal}, category |-> "Unreal",
      difficulty |-> "Advanced", language |-> "cpp"],
     [keywords |-> {kw_shader, kw_occlusion}, category |-> "Shader",
      difficulty |-> "Intermediate", language |-> "hlsl"] >>

\* The rules all of whose keywords occur in the lower-cased text of q.
Satisfied(q) ==
  LET text == lower(q)
  IN  {r \in DOMAIN RuleTable : \A k \in RuleTable[r].keywords : Contains(k, text)}

\* The keywords of the table that occur in the lower-cased text of q.
KeywordsPresent(q) ==
  LET text == lower(q)
  IN  {k \in UNION {RuleTable[r].keywords : r \in DOMAIN RuleTable} : Contains(k, text)}

\* The scenario conditions of the code that hold of q.
ConditionsHolding(q) ==
  LET query_lower == lower(q)
  IN  {r \in 1..3 : \/ r = 1 /\ Scenario1Matches(query_lower)
                    \/ r = 2 /\ Scenario2Matches(query_lower)
                    \/ r = 3 /\ Scenario3Matches(query_lower)}

Earliest(S) == CHOOSE r \in S : \A x \in S : r <= x

\* A record has been returned in this script run.
Resolved == calls = 1 /\ response_data.t = "dict"

\* get_simulated_ai_response has just returned response_data.
Returned == pc = "resolved" /\ Resolved

HasTemplate(data, r) ==
  /\ data.f.category = Str(RuleTable[r].category)
  /\ data.f.difficulty = Str(RuleTable[r].difficulty)
  /\ data.f.code_snippet.f.language = Str(RuleTable[r].language)

IsFallback(data) ==
  /\ data.f.category = Str("General")
  /\ data.f.difficulty = Str("N/A")
  /\ Len(data.f.subtasks.xs) = 1
  /\ data.f.subtasks.xs[1].f.task_name = Str("Query not recognized")
  /\ data.f.code_snippet.f.language = Str("text")
  /\ data.f.documentation_link = Str("")

Shown(w) == \E i \in DOMAIN screen : screen[i].w = w

\* An output section: a heading, a subtask or link line, a best practice,
\* a metadata box, or a code block with a language.
SectionShown ==
  \E i \in DOMAIN screen :
    \/ screen[i].w \in {"subheader", "markdown", "warning", "info"}
    \/ screen[i].w = "code" /\ screen[i].args[2].t # "none"

\* C1: for every non-empty query the dict returned by
\* get_simulated_ai_response has all seven fields, at least one subtask, each
\* with a task_name, and a code_snippet dict with language and code; it passes
\* the CodeXRResponse validation, and the schema error is never shown.
C1_ResolveSatisfiesSchema ==
  /\ Returned =>
       /\ DOMAIN response_data.f = FieldNames
       /\ response_data.f.subtasks.t = "list"
       /\ Len(response_data.f.subtasks.xs) >= 1
       /\ \A i \in DOMAIN response_data.f.subtasks.xs :
            /\ response_data.f.subtasks.xs[i].t = "dict"
            /\ "task_name" \in DOMAIN response_data.f.subtasks.xs[i].f
       /\ response_data.f.code_snippet.t = "dict"
       /\ {"language", "code"} \subseteq DOMAIN response_data.f.code_snippet.f
       /\ CodeXRResponseErrors(response_data) = {}
  /\ ~Shown("error")
  /\ (pc = "done" /\ query # <<>>) => validated_response.t = "CodeXRResponse"

C1_Witness ==
  /\ pc = "done"
  /\ Resolved
  /\ Satisfied(query) = {}
  /\ IsFallback(response_data)
  /\ Shown("json")

\* C2: when the lower-cased query contains all keywords of two or more rules,
\* the returned dict is the template of the earliest of them.
C2_EarliestRuleWins ==
  Returned =>
    LET sat == Satisfied(query)
    IN  Cardinality(sat) >= 2 => HasTemplate(response_data, Earliest(sat))

C2_Witness ==
  /\ Resolved
  /\ Satisfied(query) = {1, 2}
  /\ response_data.f.category = Str("Unity")

\* C3: when the lower-cased query does not contain both keywords of any one
\* rule, the returned dict is the fallback: General, N/A, the one subtask
\* "Query not recognized", snippet language text, empty documentation link.
C3_Fallback ==
  (Returned /\ Satisfied(query) = {}) => IsFallback(response_data)

C3_Witness ==
  /\ Resolved
  /\ KeywordsPresent(query) = {kw_teleport}
  /\ IsFallback(response_data)

IsBlank(q) == \A i \in DOMAIN q : q[i] = " "

\* C4: a submit with an empty or whitespace-only input shows the warning,
\* calls get_simulated_ai_response not at all, and validates and renders
\* nothing.
C4_BlankInputRejected ==
  (pc # "idle" /\ IsBlank(query)) =>
    /\ calls = 0
    /\ response_data = None
    /\ validated_response = None
    /\ screen = EmptyWarning

\* C5: the query field of the returned dict is the input as typed, whichever
\* template is selected; the lower-cased copy is not in the output.
C5_VerbatimEcho ==
  Returned =>
    /\ response_data.f.query = Text(query)
    /\ lower(query) # query => response_data.f.query # Text(lower(query))

C5_Witness ==
  /\ Resolved
  /\ lower(query) # query
  /\ Satisfied(query) # {}
  /\ response_data.f.query.chars = query

\* The letters paired by case.
LowerOf == [c \in {UpperCase[i] : i \in DOMAIN UpperCase} |->
              LowerCase[CHOOSE i \in DOMAIN UpperCase : UpperCase[i] = c]]

UpperOf == [c \in {LowerCase[i] : i \in DOMAIN LowerCase} |->
              UpperCase[CHOOSE i \in DOMAIN LowerCase : LowerCase[i] = c]]

LowerCaseOf(c) == IF c \in DOMAIN LowerOf THEN LowerOf[c] ELSE c

UpperCaseOf(c) == IF c \in DOMAIN UpperOf THEN UpperOf[c] ELSE c

\* Some strings that differ from q in the case of letters only: all upper,
\* all lower, every letter swapped, the first letter swapped.
CaseVariants(q) ==
  LET swap(c) == IF UpperCaseOf(c) # c THEN UpperCaseOf(c) ELSE LowerCaseOf(c)
  IN  { [i \in DOMAIN q |-> UpperCaseOf(q[i])],
        [i \in DOMAIN q |-> LowerCaseOf(q[i])],
        [i \in DOMAIN q |-> swap(q[i])],
        [i \in DOMAIN q |-> IF i = 1 THEN swap(q[i]) ELSE q[i]] }

SameTemplate(a, b) ==
  /\ a.f.category = b.f.category
  /\ a.f.difficulty = b.f.difficulty
  /\ a.f.subtasks = b.f.subtasks
  /\ a.f.code_snippet = b.f.code_snippet
  /\ a.f.best_practices = b.f.best_practices
  /\ a.f.documentation_link = b.f.documentation_link

\* C6: a query that differs from the submitted one in the case of letters
\* only gets the same template: every field but query agrees.
C6_CaseInsensitive ==
  Returned =>
    \A q2 \in CaseVariants(query) :
      SameTemplate(get_simulated_ai_response(q2), response_data)

C6_Witness ==
  /\ pc = "resolved"
  /\ Satisfied(query) = {1}
  /\ \E q2 \in CaseVariants(query) : q2 # query /\ q2 # lower(query)
  /\ query # lower(query)
  /\ response_data.f.category = Str("Unity")

\* C7: when the validation of the record fails, the run ends with the error
\* message, the field-level errors and the raw record, and with no output
\* section; nothing more is done with the record.  Output sections are on
\* the screen only when the validation has succeeded.
C7_ErrorStateOnly ==
  /\ (pc = "done" /\ Resolved /\ CodeXRResponseErrors(response_data) # {}) =>
       /\ Len(screen) = 3
       /\ screen[1].w = "error"
       /\ screen[2] = st_code(ValidationError(CodeXRResponseErrors(response_data)), None)
       /\ screen[3] = st_json(response_data)
       /\ validated_response.t = "none"
       /\ ~ENABLED NextRecord
  /\ (Resolved /\ SectionShown) =>
       /\ CodeXRResponseErrors(response_data) = {}
       /\ validated_response.t = "CodeXRResponse"
       /\ ~Shown("error")

C7_Witness ==
  /\ pc = "done"
  /\ Resolved
  /\ CodeXRResponseErrors(response_data) # {}
  /\ Shown("error")
  /\ ~SectionShown

\* C8: a query satisfying a rule and no earlier rule gets that rule's
\* template (Unity/Intermediate/4 subtasks/csharp, Unreal/Advanced/cpp,
\* Shader/Intermediate/hlsl), as do the three documented example inputs.
C8_RuleTemplates ==
  Returned =>
    LET sat == Satisfied(query)
    IN  /\ \A r \in DOMAIN RuleTable :
             (r \in sat /\ \A e \in 1..(r - 1) : e \notin sat)
               => HasTemplate(response_data, r)
        /\ 1 \in sat => Len(response_data.f.subtasks.xs) = 4
        /\ query = Example1 =>
             HasTemplate(response_data, 1) /\ Len(response_data.f.subtasks.xs) = 4
        /\ query = Example2 => HasTemplate(response_data, 2)
        /\ query = Example3 => HasTemplate(response_data, 3)

C8_Witness ==
  /\ pc = "done"
  /\ Resolved
  /\ query = Example2
  /\ HasTemplate(response_data, 2)
  /\ Shown("json")

\* C9 as stated: at most one of the three scenario conditions holds of the
\* lower-cased text of any query.
C9_AtMostOneRule ==
  Resolved => Cardinality(ConditionsHolding(query)) <= 1

\* C9 as amended: the keyword sets of the rules are pairwise disjoint, so
\* that a query with at most three of the six keywords satisfies at most one
\* condition; a query with the keywords of two rules satisfies both.
C9_AtMostOneRuleUpToThreeKeywords ==
  Returned =>
    LET present == KeywordsPresent(query)
        holding == ConditionsHolding(query)
    IN  /\ Cardinality(present) <= 3 => Cardinality(holding) <= 1
        /\ \A r \in 1..3 : RuleTable[r].keywords \subseteq present => r \in holding

C9_Witness ==
  /\ Resolved
  /\ Cardinality(KeywordsPresent(query)) = 3
  /\ Cardinality(ConditionsHolding(query)) = 1

EmptySubtasks(data) ==
  /\ "subtasks" \in DOMAIN data.f
  /\ data.f.subtasks.t = "list"
  /\ data.f.subtasks.xs = <<>>

EmptyTaskName(data) ==
  /\ "subtasks" \in DOMAIN data.f
  /\ data.f.subtasks.t = "list"
  /\ \E i \in DOMAIN data.f.subtasks.xs :
       /\ data.f.subtasks.xs[i].t = "dict"
       /\ "task_name" \in DOMAIN data.f.subtasks.xs[i].f
       /\ data.f.subtasks.xs[i].f.task_name = Str("")

\* Field presence and nesting, stated without the lengths: the seven fields
\* are there, the str fields hold a str, subtasks is a list of dicts with a
\* str task_name, code_snippet a dict with str language and code.
PresentAndNested(data) ==
  /\ DOMAIN data.f = FieldNames
  /\ \A k \in {"query", "category", "difficulty", "documentation_link"} :
       data.f[k].t = "str"
  /\ data.f.subtasks.t = "list"
  /\ \A i \in DOMAIN data.f.subtasks.xs :
       /\ data.f.subtasks.xs[i].t = "dict"
       /\ "task_name" \in DOMAIN data.f.subtasks.xs[i].f
       /\ data.f.subtasks.xs[i].f.task_name.t = "str"
       /\ "details" \in DOMAIN data.f.subtasks.xs[i].f
            => data.f.subtasks.xs[i].f.details.t \in {"str", "none"}
  /\ data.f.code_snippet.t = "dict"
  /\ \A k \in {"language", "code"} :
       k \in DOMAIN data.f.code_snippet.f /\ data.f.code_snippet.f[k].t = "str"
  /\ data.f.best_practices.t = "list"
  /\ \A i \in DOMAIN data.f.best_practices.xs : data.f.best_practices.xs[i].t = "str"

=============================================================================
